---- MODULE Spec2Model ----
(***************************************************************************)
(* Model of copylan.py: copy static routes and VLAN interfaces (SVIs or    *)
(* subinterfaces) from a source ION element to a destination ION element.  *)
(*                                                                         *)
(* The program is one sequential procedure (go) that calls create_dicts    *)
(* and then runs two passes, static routes and then interfaces. Every      *)
(* controller call is one step of the model; a loop iteration is one step. *)
(* The controller is the environment: its listings are chosen in Init, a   *)
(* call can fail, and an accepted write changes what it lists afterwards.  *)
(***************************************************************************)
EXTENDS Integers, Sequences, FiniteSets, TLC

\* ------------------------------------------------------------------------
\* Bounds of the model
\* ------------------------------------------------------------------------
MaxRoutes == 2      \* source static routes in a listing
MaxNexthops == 2    \* nexthops of one static route
MaxIntfs == 2       \* source interfaces in a listing

\* ------------------------------------------------------------------------
\* Python values
\* ------------------------------------------------------------------------
\* None, and the result of dict.get / dict.pop on a missing key.
NONE == "NONE"

\* Python truthiness of a string-or-None value (lines 199, 201, 203, ...).
Truthy(v) == v \notin {NONE, ""}

\* dict.get(key): the value, or None when the key is missing.
Get(d, key) == IF key \in DOMAIN d THEN d[key] ELSE NONE

\* The empty dict.
EmptyDict == [k \in {} |-> NONE]

\* d[key] = val on a dict: inserts or overwrites (the last assignment wins).
Put(d, key, val) == [k \in DOMAIN d \cup {key} |-> IF k = key THEN val ELSE d[k]]

\* Attributes to always remove from payload before POST/PUT.
BASE_DELETE_ATTRS ==
    {"_created_on_utc", "_updated_on_utc", "_content_length", "_status_code",
     "_request_id", "_debug", "_info", "_warning", "_error"}

RECURSIVE SeqsUpTo(_, _)
\* All sequences over S of length at most n.
SeqsUpTo(S, n) ==
    IF n = 0 THEN {<<>>}
    ELSE LET shorter == SeqsUpTo(S, n - 1)
         IN  shorter \cup {Append(s, x) : s \in {t \in shorter : Len(t) = n - 1}, x \in S}

\* The set of elements of a sequence.
Range(s) == {s[i] : i \in 1..Len(s)}

\* ------------------------------------------------------------------------
\* The controller (environment): what its listing calls return
\* ------------------------------------------------------------------------
\* Read-only attributes every record of a GET response carries.
ReadOnlyOfGet == {"_created_on_utc", "_updated_on_utc"}

\* get.elements(): the two ION devices of the site pair.
ElementItems ==
    << [id |-> "eA", name |-> "A", site_id |-> "sA", model_name |-> "ion3000"],
       [id |-> "eB", name |-> "B", site_id |-> "sB", model_name |-> "ion3000"] >>

ElementIds == {ElementItems[i].id : i \in 1..Len(ElementItems)}

\* get.vrfcontexts(): the VRFs the controller can list.
VrfUniverse == {[id |-> "v1", name |-> "CORP"], [id |-> "v9", name |-> "CORP"]}

\* Sequences without a repeated id (the controller lists every record once).
NoRepeat(s) == \A i, j \in 1..Len(s) : i # j => s[i].id # s[j].id

VrfListings == {s \in SeqsUpTo(VrfUniverse, Cardinality(VrfUniverse)) : s # <<>> /\ NoRepeat(s)}

Intf(id, name, type, etag) ==
    [id |-> id, name |-> name, type |-> type, _etag |-> etag, readonly |-> ReadOnlyOfGet]

\* get.interfaces() of the source device.
SrcIntfUniverse ==
    { Intf("i1", "vlan10", "vlan", "es1"),
      Intf("i3", "sub1", "subinterface", "es3"),
      Intf("i5", "eth1", "physical", "es5"),
      Intf("i7", "vlan10", "vlan", "es7") }

\* get.interfaces() of the destination device.
DstIntfUniverse ==
    { Intf("i2", "vlan10", "vlan", "ed2"),
      Intf("i4", "vlan10", "vlan", NONE),
      Intf("i6", "sub1", "physical", "ed6"),
      Intf("i8", "eth1", "physical", "ed8") }

Nexthop(ifid, ip) == [nexthop_interface_id |-> ifid, nexthop_ip |-> ip]

\* A nexthop references a source interface that exists ("i1"), an interface
\* id the source device does not list ("iX"), or carries a literal IP only.
NexthopUniverse == {Nexthop("i1", NONE), Nexthop("iX", NONE), Nexthop(NONE, "10.1.1.1")}

Route(id, prefix, vrf, nexthops, etag, name) ==
    [id |-> id, destination_prefix |-> prefix, vrf_context_id |-> vrf,
     nexthops |-> nexthops, _etag |-> etag, name |-> name, readonly |-> ReadOnlyOfGet]

Prefixes == {"10.0.0.0/8", "192.168.1.0/24"}

\* Source routes: any prefix, no VRF / a listed VRF / an unknown VRF id, any
\* nexthops, with or without a name attribute (name = NONE: the key is absent).
SrcRouteUniverse ==
    { Route("rs", p, v, nh, "ers", n) :
        p \in Prefixes, v \in {NONE, "v1", "vX"},
        nh \in SeqsUpTo(NexthopUniverse, MaxNexthops), n \in {NONE, "rt"} }

\* Routes with one literal-IP nexthop, used in listings of several routes.
SrcRouteSmall ==
    { r \in SrcRouteUniverse :
        r.nexthops = <<Nexthop(NONE, "10.1.1.1")>> /\ r.vrf_context_id # "v1" }

SrcRouteListings ==
    {<<r>> : r \in SrcRouteUniverse} \cup SeqsUpTo(SrcRouteSmall, MaxRoutes)

\* Destination routes: one per prefix at most, with or without an ETag.
DstRouteUniverse ==
    { Route("rd1", "10.0.0.0/8", NONE, <<Nexthop(NONE, "10.9.9.9")>>, "erd", "rt"),
      Route("rd2", "10.0.0.0/8", NONE, <<Nexthop(NONE, "10.9.9.9")>>, NONE, "rt") }

DstRouteListings == {<<>>} \cup {<<r>> : r \in DstRouteUniverse}

\* The scenario of the specification: device A has VRF CORP (v1) and vlan10
\* (i1), device B has VRF CORP (v9) and vlan10 (i2).
ScenarioRoute ==
    Route("rs", "192.168.1.0/24", "v1", <<Nexthop("i1", NONE)>>, "ers", "rt")

ScenarioSrcIntfs == <<Intf("i1", "vlan10", "vlan", "es1")>>

ScenarioDstIntfs == <<Intf("i2", "vlan10", "vlan", "ed2")>>

Env(vrfs, sroutes, droutes, sintfs, dintfs) ==
    [vrfs |-> vrfs,
     routes |-> [e \in ElementIds |-> IF e = "eA" THEN sroutes ELSE droutes],
     intfs |-> [e \in ElementIds |-> IF e = "eA" THEN sintfs ELSE dintfs],
     seq |-> 0]

\* Environments that vary the static routes of both devices.
RouteEnvs ==
    { Env(<<[id |-> "v1", name |-> "CORP"]>>, sr, dr, ScenarioSrcIntfs, ScenarioDstIntfs) :
        sr \in SrcRouteListings, dr \in DstRouteListings }

\* Environments that vary the VRF listing and its order.
VrfEnvs ==
    { Env(v, <<r>>, <<>>, ScenarioSrcIntfs, ScenarioDstIntfs) :
        v \in VrfListings, r \in {ScenarioRoute, [ScenarioRoute EXCEPT !.vrf_context_id = NONE]} }

SrcIntfListings == {s \in SeqsUpTo(SrcIntfUniverse, MaxIntfs) : NoRepeat(s)}

DstIntfListings == {s \in SeqsUpTo(DstIntfUniverse, MaxIntfs) : NoRepeat(s)}

\* Environments that vary the interfaces of both devices.
IntfEnvs ==
    { Env(<<[id |-> "v1", name |-> "CORP"]>>, <<ScenarioRoute>>, <<>>, si, di) :
        si \in SrcIntfListings, di \in DstIntfListings }

Environments == RouteEnvs \cup VrfEnvs \cup IntfEnvs

\* Command lines: --src_element and --dst_element (None when not given).
ArgsUniverse ==
    { [src_element |-> s, dst_element |-> d] : s \in {"A", "Z"}, d \in {"A", "B", "Z", NONE} }

\* The command line of the scenario: copy from A to B.
ScenarioArgs == [src_element |-> "A", dst_element |-> "B"]

ScenarioEnv ==
    Env(<<[id |-> "v1", name |-> "CORP"], [id |-> "v9", name |-> "CORP"]>>,
        <<ScenarioRoute>>, <<>>, ScenarioSrcIntfs, ScenarioDstIntfs)

\* ------------------------------------------------------------------------
\* State
\* ------------------------------------------------------------------------
VARIABLES
    ctl,                          \* the controller: vrfs, routes and interfaces per device
    args,                         \* parsed command line
    pc,                           \* position of the script
    run,                          \* number of the current run of the script
    elem_id_name,                 \* global dicts of create_dicts
    elem_name_id,
    elemid_siteid,
    global_id_vfr,
    global_name_vfr,
    element_interfaces_by_id,
    element_interfaces_by_name,
    eidx,                         \* position of create_dicts in elem_id_name.items()
    source_static_routes_list,
    destination_static_routes_list,
    dst_routes_by_prefix,
    ridx,                         \* position of the static route loop
    interface_list,
    destination_interface_list,
    dst_interfaces_by_name,
    iidx,                         \* position of the interface loop
    calls,                        \* every create/update call issued, in order
    reports,                      \* every WARN line printed for a record, in order
    gets                          \* every listing call of the running process, in order

dictVars == <<elem_id_name, elem_name_id, elemid_siteid, global_id_vfr, global_name_vfr,
              element_interfaces_by_id, element_interfaces_by_name, eidx>>

routeVars == <<source_static_routes_list, destination_static_routes_list,
               dst_routes_by_prefix, ridx>>

intfVars == <<interface_list, destination_interface_list, dst_interfaces_by_name, iidx>>

histVars == <<calls, reports, gets>>

vars == <<ctl, args, pc, run, dictVars, routeVars, intfVars, histVars>>

\* The module-level dictionaries and the locals of go() at process start.
FreshProcess ==
    /\ elem_id_name = <<>>
    /\ elem_name_id = EmptyDict
    /\ elemid_siteid = EmptyDict
    /\ global_id_vfr = EmptyDict
    /\ global_name_vfr = EmptyDict
    /\ element_interfaces_by_id = EmptyDict
    /\ element_interfaces_by_name = EmptyDict
    /\ eidx = 1
    /\ source_static_routes_list = <<>>
    /\ destination_static_routes_list = <<>>
    /\ dst_routes_by_prefix = EmptyDict
    /\ ridx = 1
    /\ interface_list = <<>>
    /\ destination_interface_list = <<>>
    /\ dst_interfaces_by_name = EmptyDict
    /\ iidx = 1

Init ==
    /\ \/ ctl \in Environments /\ args = ScenarioArgs
       \/ ctl = ScenarioEnv /\ args \in ArgsUniverse
    /\ pc = "start"
    /\ run = 1
    /\ FreshProcess
    /\ calls = <<>>
    /\ reports = <<>>
    /\ gets = <<>>

\* ------------------------------------------------------------------------
\* go(): arguments and login (lines 121-139)
\* ------------------------------------------------------------------------
\* if dst_element == src_element: sys.exit(1)
ParseArgs ==
    /\ pc = "start"
    /\ pc' = IF args.dst_element = args.src_element THEN "exit1" ELSE "login"
    /\ UNCHANGED <<ctl, args, run, dictVars, routeVars, intfVars, histVars>>

\* login_secret(); tenant_id is None on a login failure.
Login ==
    /\ pc = "login"
    /\ \E ok \in BOOLEAN : pc' = IF ok THEN "elements" ELSE "exit1"
    /\ UNCHANGED <<ctl, args, run, dictVars, routeVars, intfVars, histVars>>

\* ------------------------------------------------------------------------
\* create_dicts (lines 47-106)
\* ------------------------------------------------------------------------
RECURSIVE DictOf(_, _, _)
\* for x in items: d[key(x)] = value(x), from item i on; later items overwrite
\* earlier ones. pairs[i] is the <<key, value>> pair the loop body stores for item i.
DictOf(pairs, i, d) ==
    IF i > Len(pairs) THEN d
    ELSE DictOf(pairs, i + 1, Put(d, pairs[i][1], pairs[i][2]))

IdName(x) == <<x.id, x.name>>

NameId(x) == <<x.name, x.id>>

IdSite(x) == <<x.id, x.site_id>>

\* The <<key, value>> pairs a loop over items stores, in item order.
PairsIdName(items) == [k \in 1..Len(items) |-> IdName(items[k])]

PairsNameId(items) == [k \in 1..Len(items) |-> NameId(items[k])]

PairsIdSite(items) == [k \in 1..Len(items) |-> IdSite(items[k])]

\* One sase_session.get.<kind>() call: the phase of the script that issued it,
\* the element it is scoped to, its cgx_status, the items of its response and
\* the number of write calls issued before it.
Listing(phase, kind, element_id, ok, items) ==
    [phase |-> phase, kind |-> kind, element_id |-> element_id,
     ok |-> ok, items |-> IF ok THEN items ELSE <<>>, at |-> Len(calls)]

\* resp = sase_session.get.elements() and the loop of lines 58-67.
ListElements ==
    /\ pc = "elements"
    /\ \E ok \in BOOLEAN :
       /\ gets' = Append(gets, Listing("dicts", "elements", NONE, ok, ElementItems))
       /\ IF ok
         THEN /\ elem_id_name' = [i \in 1..Len(ElementItems) |-> IdName(ElementItems[i])]
              /\ elem_name_id' = DictOf(PairsNameId(ElementItems), 1, EmptyDict)
              /\ elemid_siteid' = DictOf(PairsIdSite(ElementItems), 1, EmptyDict)
              /\ element_interfaces_by_id' = [e \in ElementIds |-> EmptyDict]
              /\ element_interfaces_by_name' = [e \in ElementIds |-> EmptyDict]
              /\ pc' = "vrfs"
         ELSE /\ pc' = "exit1"
              /\ UNCHANGED <<elem_id_name, elem_name_id, elemid_siteid,
                             element_interfaces_by_id, element_interfaces_by_name>>
    /\ UNCHANGED <<ctl, args, run, global_id_vfr, global_name_vfr, eidx,
                   routeVars, intfVars, calls, reports>>

\* respvrf = sase_session.get.vrfcontexts() and the loop of lines 79-81.
ListVrfs ==
    /\ pc = "vrfs"
    /\ \E ok \in BOOLEAN :
       /\ gets' = Append(gets, Listing("dicts", "vrfcontexts", NONE, ok, ctl.vrfs))
       /\ IF ok
         THEN /\ global_id_vfr' = DictOf(PairsIdName(ctl.vrfs), 1, EmptyDict)
              /\ global_name_vfr' = DictOf(PairsNameId(ctl.vrfs), 1, EmptyDict)
              /\ pc' = "dict_interfaces"
         ELSE /\ pc' = "exit1"
              /\ UNCHANGED <<global_id_vfr, global_name_vfr>>
    /\ UNCHANGED <<ctl, args, run, elem_id_name, elem_name_id, elemid_siteid,
                   element_interfaces_by_id, element_interfaces_by_name, eidx,
                   routeVars, intfVars, calls, reports>>

\* ListElementInterfaces with one shared pair of interface tables: a failed
\* listing of one element empties the tables of every element.
ListElementInterfacesShared ==
    /\ pc = "dict_interfaces"
    /\ eidx <= Len(elem_id_name)
    /\ LET elem_id == elem_id_name[eidx][1]
           site_id == Get(elemid_siteid, elem_id)
       IN  IF Truthy(site_id)
           THEN \E ok \in BOOLEAN :
                  /\ gets' = Append(gets, Listing("dicts", "interfaces", elem_id, ok,
                                                  ctl.intfs[elem_id]))
                  /\ IF ok
                     THEN /\ element_interfaces_by_id' =
                               [element_interfaces_by_id EXCEPT
                                  ![elem_id] = DictOf(PairsIdName(ctl.intfs[elem_id]), 1, @)]
                          /\ element_interfaces_by_name' =
                               [element_interfaces_by_name EXCEPT
                                  ![elem_id] = DictOf(PairsNameId(ctl.intfs[elem_id]), 1, @)]
                     ELSE /\ element_interfaces_by_id' = [e \in ElementIds |-> EmptyDict]
                          /\ element_interfaces_by_name' = [e \in ElementIds |-> EmptyDict]
           ELSE UNCHANGED <<element_interfaces_by_id, element_interfaces_by_name, gets>>
    /\ eidx' = eidx + 1
    /\ UNCHANGED <<ctl, args, pc, run, elem_id_name, elem_name_id, elemid_siteid,
                   global_id_vfr, global_name_vfr, routeVars, intfVars, calls, reports>>

\* One iteration of "for elem_id, elem_name in elem_id_name.items()": the
\* interfaces of one element; a failed listing leaves its dicts empty.
ListElementInterfaces ==
    /\ pc = "dict_interfaces"
    /\ eidx <= Len(elem_id_name)
    /\ LET elem_id == elem_id_name[eidx][1]
           site_id == Get(elemid_siteid, elem_id)
       IN  IF Truthy(site_id)
           THEN \E ok \in BOOLEAN :
                  /\ gets' = Append(gets, Listing("dicts", "interfaces", elem_id, ok,
                                                  ctl.intfs[elem_id]))
                  /\ IF ok
                     THEN /\ element_interfaces_by_id' =
                               [element_interfaces_by_id EXCEPT
                                  ![elem_id] = DictOf(PairsIdName(ctl.intfs[elem_id]), 1, @)]
                          /\ element_interfaces_by_name' =
                               [element_interfaces_by_name EXCEPT
                                  ![elem_id] = DictOf(PairsNameId(ctl.intfs[elem_id]), 1, @)]
                     ELSE UNCHANGED <<element_interfaces_by_id, element_interfaces_by_name>>
           ELSE UNCHANGED <<element_interfaces_by_id, element_interfaces_by_name, gets>>
    /\ eidx' = eidx + 1
    /\ UNCHANGED <<ctl, args, pc, run, elem_id_name, elem_name_id, elemid_siteid,
                   global_id_vfr, global_name_vfr, routeVars, intfVars, calls, reports>>

\* ------------------------------------------------------------------------
\* go(): validate element names (lines 150-160)
\* ------------------------------------------------------------------------
src_eid == Get(elem_name_id, args.src_element)

src_sid == Get(elemid_siteid, src_eid)

\* dst_eid looked up under the source element's name.
dst_eid_of_source == Get(elem_name_id, args.src_element)

dst_eid == Get(elem_name_id, args.dst_element)

dst_sid == Get(elemid_siteid, dst_eid)

ValidateElements ==
    /\ pc = "dict_interfaces"
    /\ eidx > Len(elem_id_name)
    /\ pc' = IF args.src_element \notin DOMAIN elem_name_id THEN "exit1"
             ELSE IF args.dst_element \notin DOMAIN elem_name_id THEN "exit1"
             ELSE "src_routes"
    /\ UNCHANGED <<ctl, args, run, dictVars, routeVars, intfVars, histVars>>

\* ------------------------------------------------------------------------
\* The controller's side of a write call (environment)
\* ------------------------------------------------------------------------
\* An accepted POST: the controller stores the payload under a new id and ETag.
CtlCreate(c, kind, dev, data) ==
    LET stored == [data EXCEPT !.id = "n" \o ToString(c.seq + 1),
                               !._etag = "t" \o ToString(c.seq + 1),
                               !.readonly = @ \cup ReadOnlyOfGet]
    IN  [c EXCEPT ![kind][dev] = Append(@, stored), !.seq = @ + 1]

\* An accepted PUT: the controller replaces the addressed record and renews its ETag.
CtlUpdate(c, kind, dev, target, data) ==
    LET stored == [data EXCEPT !.id = target,
                               !._etag = "t" \o ToString(c.seq + 1),
                               !.readonly = @ \cup ReadOnlyOfGet]
    IN  [c EXCEPT ![kind][dev] = [k \in 1..Len(@) |-> IF @[k].id = target THEN stored ELSE @[k]],
                  !.seq = @ + 1]

Call(pass, op, idx, target, data, ok) ==
    [run |-> run, pass |-> pass, op |-> op, idx |-> idx,
     site_id |-> dst_sid, element_id |-> dst_eid,
     target |-> target, data |-> data, ok |-> ok]

Report(pass, idx, kind) == [run |-> run, pass |-> pass, idx |-> idx, kind |-> kind]

\* ------------------------------------------------------------------------
\* Static routes: listings (lines 170-189)
\* ------------------------------------------------------------------------
\* ListSrcRoutes with the loop of line 191 walking the listing backwards.
ListSrcRoutesReversed ==
    /\ pc = "src_routes"
    /\ \E ok \in BOOLEAN :
       /\ gets' = Append(gets, Listing("routes", "staticroutes", src_eid, ok, ctl.routes[src_eid]))
       /\ IF ok
         THEN /\ source_static_routes_list' =
                   [i \in 1..Len(ctl.routes[src_eid]) |->
                      ctl.routes[src_eid][Len(ctl.routes[src_eid]) + 1 - i]]
              /\ pc' = "dst_routes"
         ELSE /\ pc' = "exit1"
              /\ UNCHANGED source_static_routes_list
    /\ UNCHANGED <<ctl, args, run, dictVars, destination_static_routes_list,
                   dst_routes_by_prefix, ridx, intfVars, calls, reports>>

\* src_static_routes_resp = get.staticroutes(site_id=src_sid, element_id=src_eid)
ListSrcRoutes ==
    /\ pc = "src_routes"
    /\ \E ok \in BOOLEAN :
       /\ gets' = Append(gets, Listing("routes", "staticroutes", src_eid, ok, ctl.routes[src_eid]))
       /\ IF ok
         THEN /\ source_static_routes_list' = ctl.routes[src_eid]
              /\ pc' = "dst_routes"
         ELSE /\ pc' = "exit1"
              /\ UNCHANGED source_static_routes_list
    /\ UNCHANGED <<ctl, args, run, dictVars, destination_static_routes_list,
                   dst_routes_by_prefix, ridx, intfVars, calls, reports>>

\* Mutant of PrefixRoute: the destination index is keyed by id, not by prefix.
PrefixRouteById(x) == <<x.id, x>>

\* The key and value of line 184 for one destination route.
PrefixRoute(x) == <<x.destination_prefix, x>>

PairsPrefixRoute(items) == [k \in 1..Len(items) |-> PrefixRoute(items[k])]

\* dst_static_routes_resp = get.staticroutes(site_id=dst_sid, element_id=dst_eid)
\* dst_routes_by_prefix = {route["destination_prefix"]: route for route in ...}
\* ListDstRoutes with the else branch of lines 186-189 carrying on without sys.exit(1).
ListDstRoutesNoExit ==
    /\ pc = "dst_routes"
    /\ \E ok \in BOOLEAN :
       /\ gets' = Append(gets, Listing("routes", "staticroutes", dst_eid, ok, ctl.routes[dst_eid]))
       /\ destination_static_routes_list' = IF ok THEN ctl.routes[dst_eid] ELSE <<>>
       /\ dst_routes_by_prefix' =
            IF ok THEN DictOf(PairsPrefixRoute(ctl.routes[dst_eid]), 1, EmptyDict) ELSE EmptyDict
       /\ pc' = "route_loop"
    /\ UNCHANGED <<ctl, args, run, dictVars, source_static_routes_list, ridx, intfVars,
                   calls, reports>>

ListDstRoutes ==
    /\ pc = "dst_routes"
    /\ \E ok \in BOOLEAN :
       /\ gets' = Append(gets, Listing("routes", "staticroutes", dst_eid, ok, ctl.routes[dst_eid]))
       /\ IF ok
         THEN /\ destination_static_routes_list' = ctl.routes[dst_eid]
              /\ dst_routes_by_prefix' = DictOf(PairsPrefixRoute(ctl.routes[dst_eid]), 1, EmptyDict)
              /\ pc' = "route_loop"
         ELSE /\ pc' = "exit1"
              /\ UNCHANGED <<destination_static_routes_list, dst_routes_by_prefix>>
    /\ UNCHANGED <<ctl, args, run, dictVars, source_static_routes_list, ridx, intfVars,
                   calls, reports>>

\* ------------------------------------------------------------------------
\* Static routes: one record (lines 191-266)
\* ------------------------------------------------------------------------
\* for attr in BASE_DELETE_ATTRS: payload.pop(attr, None)
Sanitize(record) == [record EXCEPT !.readonly = @ \ BASE_DELETE_ATTRS]

\* vrf_name = global_id_vfr.get(source_vrf_context_id)
VrfName(payload) == Get(global_id_vfr, payload.vrf_context_id)

\* new_vrf_context_id = global_name_vfr.get(vrf_name)
NewVrfContextId(payload) == Get(global_name_vfr, VrfName(payload))

\* Mutant of VrfSkip: the "continue" statements of lines 207 and 210 are missing.
VrfSkipNever(payload) == FALSE

\* The two "continue" statements of lines 207 and 210 (they continue the route loop).
VrfSkip(payload) ==
    /\ Truthy(payload.vrf_context_id)
    /\ ~Truthy(VrfName(payload)) \/ ~Truthy(NewVrfContextId(payload))

VrfSkipKind(payload) ==
    IF Truthy(VrfName(payload)) THEN "skip_vrf_id_unknown" ELSE "skip_vrf_name_unknown"

\* route_payload["vrf_context_id"] = new_vrf_context_id (line 204)
RewriteVrf(payload) ==
    IF Truthy(payload.vrf_context_id)
    THEN [payload EXCEPT !.vrf_context_id = NewVrfContextId(payload)]
    ELSE payload

\* interface_name = element_interfaces_by_id[src_eid].get(source_nexthop_interface_id)
InterfaceName(nexthop) ==
    Get(element_interfaces_by_id[src_eid], nexthop.nexthop_interface_id)

\* new_nexthop_interface_id = element_interfaces_by_name[dst_eid].get(interface_name)
NewNexthopInterfaceId(nexthop) ==
    Get(element_interfaces_by_name[dst_eid], InterfaceName(nexthop))

\* The WARN line of one nexthop (lines 223 and 227), or NONE.
NexthopWarning(nexthop) ==
    IF ~Truthy(nexthop.nexthop_interface_id) THEN NONE
    ELSE IF ~Truthy(InterfaceName(nexthop)) THEN "skip_nexthop_src_unknown"
    ELSE IF ~Truthy(NewNexthopInterfaceId(nexthop)) THEN "skip_nexthop_dst_missing"
    ELSE NONE

\* The body of "for nexthop in route_payload['nexthops']": the nexthop after
\* it. The "continue" of lines 225 and 228 is inside this inner loop, so it
\* goes on with the next nexthop and leaves this one as it was.
RewriteNexthop(nexthop) ==
    IF NexthopWarning(nexthop) = NONE /\ Truthy(nexthop.nexthop_interface_id)
    THEN [nexthop EXCEPT !.nexthop_interface_id = NewNexthopInterfaceId(nexthop)]
    ELSE nexthop

\* RewriteNexthops leaving out the nexthops whose interface cannot be translated.
RewriteNexthopsDropping(payload) ==
    LET keep(nexthop) == NexthopWarning(nexthop) = NONE
    IN  [payload EXCEPT !.nexthops =
           LET kept == SelectSeq(@, keep)
           IN  [k \in 1..Len(kept) |-> RewriteNexthop(kept[k])]]

\* Lines 212-228 on the whole payload.
RewriteNexthops(payload) ==
    [payload EXCEPT !.nexthops = [k \in 1..Len(@) |-> RewriteNexthop(@[k])]]

RECURSIVE NexthopReports(_, _, _)
\* The WARN lines lines 212-228 print for route idx, in nexthop order.
NexthopReports(nexthops, idx, k) ==
    IF k > Len(nexthops) THEN <<>>
    ELSE (IF NexthopWarning(nexthops[k]) = NONE THEN <<>>
          ELSE <<Report("route", idx, NexthopWarning(nexthops[k]))>>)
         \o NexthopReports(nexthops, idx, k + 1)

\* route_payload when line 231 is reached.
RoutePayload(idx) == RewriteNexthops(RewriteVrf(Sanitize(source_static_routes_list[idx])))

\* existing_dst_route = dst_routes_by_prefix.get(destination_prefix_to_check), as a truth value
RouteExists(payload) == payload.destination_prefix \in DOMAIN dst_routes_by_prefix

\* Mutant of UpdatePayload: line 247 (route_payload["id"] = route_id_to_update)
\* is missing, so the payload keeps the id of the source record.
UpdatePayloadKeepsSourceId(payload, existing) ==
    [payload EXCEPT !._etag = IF existing._etag # NONE THEN existing._etag ELSE @]

\* Lines 237-247: the PUT payload.
UpdatePayload(payload, existing) ==
    [payload EXCEPT !._etag = IF existing._etag # NONE THEN existing._etag ELSE @,
                    !.id = existing.id]

\* Mutant of CreatePayload: line 258 (pop("_etag")) is missing.
CreatePayloadKeepsEtag(payload) == [payload EXCEPT !.id = NONE]

\* Lines 257-258: the POST payload.
CreatePayload(payload) == [payload EXCEPT !.id = NONE, !._etag = NONE]

InRouteLoop == pc = "route_loop" /\ ridx <= Len(source_static_routes_list)

\* The route is skipped for its VRF reference (lines 198-210).
RouteSkipVrf ==
    /\ InRouteLoop
    /\ LET payload == Sanitize(source_static_routes_list[ridx])
       IN  /\ VrfSkip(payload)
           /\ reports' = Append(reports, Report("route", ridx, VrfSkipKind(payload)))
    /\ ridx' = ridx + 1
    /\ UNCHANGED <<ctl, args, pc, run, dictVars, source_static_routes_list,
                   destination_static_routes_list, dst_routes_by_prefix, intfVars, calls, gets>>

\* Line 244: the WARN line reads route_payload['name']; a route without a
\* name raises KeyError, which nothing catches.
RouteKeyError ==
    /\ InRouteLoop
    /\ LET source == source_static_routes_list[ridx]
           payload == RoutePayload(ridx)
       IN  /\ ~VrfSkip(Sanitize(source))
           /\ RouteExists(payload)
           /\ dst_routes_by_prefix[payload.destination_prefix]._etag = NONE
           /\ payload.name = NONE
           /\ reports' = reports \o NexthopReports(source.nexthops, ridx, 1)
    /\ pc' = "crashed"
    /\ UNCHANGED <<ctl, args, run, dictVars, routeVars, intfVars, calls, gets>>

\* The route exists on the destination: PUT (lines 235-255).
RouteUpdate ==
    /\ InRouteLoop
    /\ LET source == source_static_routes_list[ridx]
           payload == RoutePayload(ridx)
       IN  /\ ~VrfSkip(Sanitize(source))
           /\ RouteExists(payload)
           /\ LET existing == dst_routes_by_prefix[payload.destination_prefix]
                  data == UpdatePayload(payload, existing)
              IN  /\ existing._etag = NONE => payload.name # NONE
                  /\ reports' = reports \o NexthopReports(source.nexthops, ridx, 1)
                                  \o (IF existing._etag = NONE
                                      THEN <<Report("route", ridx, "no_etag")>> ELSE <<>>)
                  /\ \E ok \in BOOLEAN :
                       /\ calls' = Append(calls, Call("route", "update", ridx, existing.id, data, ok))
                       /\ ctl' = IF ok THEN CtlUpdate(ctl, "routes", dst_eid, existing.id, data)
                                 ELSE ctl
    /\ ridx' = ridx + 1
    /\ UNCHANGED <<args, pc, run, dictVars, source_static_routes_list,
                   destination_static_routes_list, dst_routes_by_prefix, intfVars, gets>>

\* RouteCreate reissuing a rejected POST once: the loop stays on the record.
RouteCreateRetry ==
    /\ InRouteLoop
    /\ LET source == source_static_routes_list[ridx]
           payload == RoutePayload(ridx)
       IN  /\ ~VrfSkip(Sanitize(source))
           /\ ~RouteExists(payload)
           /\ reports' = reports \o NexthopReports(source.nexthops, ridx, 1)
           /\ \E ok \in BOOLEAN :
                /\ calls' = Append(calls, Call("route", "create", ridx, NONE, CreatePayload(payload), ok))
                /\ ctl' = IF ok THEN CtlCreate(ctl, "routes", dst_eid, CreatePayload(payload))
                          ELSE ctl
                /\ ridx' = IF ok \/ \E k \in 1..Len(calls) :
                                        /\ calls[k].run = run /\ calls[k].pass = "route"
                                        /\ calls[k].idx = ridx
                            THEN ridx + 1 ELSE ridx
    /\ UNCHANGED <<args, pc, run, dictVars, source_static_routes_list,
                   destination_static_routes_list, dst_routes_by_prefix, intfVars, gets>>

\* The route does not exist on the destination: POST (lines 256-266).
RouteCreate ==
    /\ InRouteLoop
    /\ LET source == source_static_routes_list[ridx]
           payload == RoutePayload(ridx)
       IN  /\ ~VrfSkip(Sanitize(source))
           /\ ~RouteExists(payload)
           /\ reports' = reports \o NexthopReports(source.nexthops, ridx, 1)
           /\ \E ok \in BOOLEAN :
                /\ calls' = Append(calls, Call("route", "create", ridx, NONE, CreatePayload(payload), ok))
                /\ ctl' = IF ok THEN CtlCreate(ctl, "routes", dst_eid, CreatePayload(payload))
                          ELSE ctl
    /\ ridx' = ridx + 1
    /\ UNCHANGED <<args, pc, run, dictVars, source_static_routes_list,
                   destination_static_routes_list, dst_routes_by_prefix, intfVars, gets>>

\* ------------------------------------------------------------------------
\* Interfaces: listings (lines 273-291)
\* ------------------------------------------------------------------------
\* interfaces = get.interfaces(site_id=src_sid, element_id=src_eid); reached
\* when the static route loop has gone through the whole source listing.
ListSrcInterfaces ==
    /\ pc = "route_loop"
    /\ ridx > Len(source_static_routes_list)
    /\ \E ok \in BOOLEAN :
       /\ gets' = Append(gets, Listing("interfaces", "interfaces", src_eid, ok, ctl.intfs[src_eid]))
       /\ IF ok
         THEN /\ interface_list' = ctl.intfs[src_eid]
              /\ pc' = "dst_intfs"
         ELSE /\ pc' = "exit1"
              /\ UNCHANGED interface_list
    /\ UNCHANGED <<ctl, args, run, dictVars, routeVars, destination_interface_list,
                   dst_interfaces_by_name, iidx, calls, reports>>

\* intf["type"] in ["vlan", "subinterface"] (line 286)
IsVlanType(intf) == intf.type \in {"vlan", "subinterface"}

NameIntf(x) == <<x.name, x>>

PairsNameIntf(items) == [k \in 1..Len(items) |-> NameIntf(items[k])]

\* DstInterfacesByName without the "if intf['type'] in [...]" filter of line 286.
DstInterfacesByNameAnyType(items) ==
    DictOf(PairsNameIntf(items), 1, EmptyDict)

\* dst_interfaces_by_name = {intf["name"]: intf for intf in ... if intf["type"] in [...]}
DstInterfacesByName(items) ==
    DictOf(PairsNameIntf(SelectSeq(items, IsVlanType)), 1, EmptyDict)

ListDstInterfaces ==
    /\ pc = "dst_intfs"
    /\ \E ok \in BOOLEAN :
       /\ gets' = Append(gets, Listing("interfaces", "interfaces", dst_eid, ok, ctl.intfs[dst_eid]))
       /\ IF ok
         THEN /\ destination_interface_list' = ctl.intfs[dst_eid]
              /\ dst_interfaces_by_name' = DstInterfacesByName(ctl.intfs[dst_eid])
              /\ pc' = "intf_loop"
         ELSE /\ pc' = "exit1"
              /\ UNCHANGED <<destination_interface_list, dst_interfaces_by_name>>
    /\ UNCHANGED <<ctl, args, run, dictVars, routeVars, interface_list, iidx, calls, reports>>

\* ------------------------------------------------------------------------
\* Interfaces: one record (lines 293-333)
\* ------------------------------------------------------------------------
\* Mutant of IsCopied: the type test of line 294 also lets physical ports through.
IsCopiedAlsoPhysical(intf) == intf.type \in {"vlan", "subinterface", "physical"}

\* if intf["type"] == "vlan" or intf["type"] == "subinterface" (line 294)
IsCopied(intf) == intf.type = "vlan" \/ intf.type = "subinterface"

\* existing_dst_intf = dst_interfaces_by_name.get(intf_payload["name"]), as a truth value
IntfExists(payload) == payload.name \in DOMAIN dst_interfaces_by_name

InIntfLoop == pc = "intf_loop" /\ iidx <= Len(interface_list)

\* An interface of another type: the loop body does nothing.
IntfSkipType ==
    /\ InIntfLoop
    /\ ~IsCopied(interface_list[iidx])
    /\ iidx' = iidx + 1
    /\ UNCHANGED <<ctl, args, pc, run, dictVars, routeVars, interface_list,
                   destination_interface_list, dst_interfaces_by_name, histVars>>

\* The interface exists on the destination: PUT (lines 303-321).
IntfUpdate ==
    /\ InIntfLoop
    /\ IsCopied(interface_list[iidx])
    /\ LET payload == Sanitize(interface_list[iidx])
       IN  /\ IntfExists(payload)
           /\ LET existing == dst_interfaces_by_name[payload.name]
                  data == UpdatePayload(payload, existing)
              IN  /\ reports' = reports \o (IF existing._etag = NONE
                                            THEN <<Report("intf", iidx, "no_etag")>> ELSE <<>>)
                  /\ \E ok \in BOOLEAN :
                       /\ calls' = Append(calls, Call("intf", "update", iidx, existing.id, data, ok))
                       /\ ctl' = IF ok THEN CtlUpdate(ctl, "intfs", dst_eid, existing.id, data)
                                 ELSE ctl
    /\ iidx' = iidx + 1
    /\ UNCHANGED <<args, pc, run, dictVars, routeVars, interface_list,
                   destination_interface_list, dst_interfaces_by_name, gets>>

\* The interface does not exist on the destination: POST (lines 322-333).
IntfCreate ==
    /\ InIntfLoop
    /\ IsCopied(interface_list[iidx])
    /\ LET payload == Sanitize(interface_list[iidx])
       IN  /\ ~IntfExists(payload)
           /\ \E ok \in BOOLEAN :
                /\ calls' = Append(calls, Call("intf", "create", iidx, NONE, CreatePayload(payload), ok))
                /\ ctl' = IF ok THEN CtlCreate(ctl, "intfs", dst_eid, CreatePayload(payload))
                          ELSE ctl
    /\ iidx' = iidx + 1
    /\ UNCHANGED <<args, pc, run, dictVars, routeVars, interface_list,
                   destination_interface_list, dst_interfaces_by_name, reports, gets>>

\* return (line 334): the process exits with status 0.
Return ==
    /\ pc = "intf_loop"
    /\ iidx > Len(interface_list)
    /\ pc' = "done"
    /\ UNCHANGED <<ctl, args, run, dictVars, routeVars, intfVars, histVars>>

\* ------------------------------------------------------------------------
\* The operator runs the script again
\* ------------------------------------------------------------------------
\* Every write call of the runs so far was accepted by the controller.
AllWritesOk == \A k \in 1..Len(calls) : calls[k].ok

\* A second process with the same command line, after a first run that completed
\* with every write accepted: the module-level dicts are empty again.
Rerun ==
    /\ pc = "done"
    /\ run = 1
    /\ AllWritesOk
    /\ run' = run + 1
    /\ pc' = "start"
    /\ elem_id_name' = <<>>
    /\ elem_name_id' = EmptyDict
    /\ elemid_siteid' = EmptyDict
    /\ global_id_vfr' = EmptyDict
    /\ global_name_vfr' = EmptyDict
    /\ element_interfaces_by_id' = EmptyDict
    /\ element_interfaces_by_name' = EmptyDict
    /\ eidx' = 1
    /\ source_static_routes_list' = <<>>
    /\ destination_static_routes_list' = <<>>
    /\ dst_routes_by_prefix' = EmptyDict
    /\ ridx' = 1
    /\ interface_list' = <<>>
    /\ destination_interface_list' = <<>>
    /\ dst_interfaces_by_name' = EmptyDict
    /\ iidx' = 1
    /\ gets' = <<>>
    /\ UNCHANGED <<ctl, args, calls, reports>>

Next ==
    \/ ParseArgs
    \/ Login
    \/ ListElements
    \/ ListVrfs
    \/ ListElementInterfaces
    \/ ValidateElements
    \/ ListSrcRoutes
    \/ ListDstRoutes
    \/ RouteSkipVrf
    \/ RouteKeyError
    \/ RouteUpdate
    \/ RouteCreate
    \/ ListSrcInterfaces
    \/ ListDstInterfaces
    \/ IntfSkipType
    \/ IntfUpdate
    \/ IntfCreate
    \/ Return
    \/ Rerun

Spec == Init /\ [][Next]_vars

\* The script is a sequential process: it takes its next step whenever it has one.
FairSpec == Spec /\ WF_vars(Next)

\* ------------------------------------------------------------------------
\* Observations on the history of a run
\* ------------------------------------------------------------------------
\* Source records the loops of the current run have gone through.
ProcessedRoutes == 1..(ridx - 1)

ProcessedIntfs == 1..(iidx - 1)

\* Write calls of the current run for source record idx of a pass.
CallsFor(pass, idx) ==
    {k \in 1..Len(calls) : calls[k].run = run /\ calls[k].pass = pass /\ calls[k].idx = idx}

SkipKinds ==
    {"skip_vrf_id_unknown", "skip_vrf_name_unknown",
     "skip_nexthop_src_unknown", "skip_nexthop_dst_missing"}

\* "Skipping route ..." lines of the current run for source record idx.
SkipReportsFor(pass, idx) ==
    {k \in 1..Len(reports) : /\ reports[k].run = run /\ reports[k].pass = pass
                             /\ reports[k].idx = idx /\ reports[k].kind \in SkipKinds}

\* A nexthop whose interface reference cannot be carried over to the destination.
NexthopUnresolvable(nexthop) ==
    /\ nexthop.nexthop_interface_id # NONE
    /\ \/ nexthop.nexthop_interface_id \notin DOMAIN element_interfaces_by_id[src_eid]
       \/ element_interfaces_by_id[src_eid][nexthop.nexthop_interface_id]
             \notin DOMAIN element_interfaces_by_name[dst_eid]

NexthopResolvable(nexthop) ==
    nexthop.nexthop_interface_id # NONE /\ ~NexthopUnresolvable(nexthop)

HasUnresolvableNexthop(route) ==
    \E k \in 1..Len(route.nexthops) : NexthopUnresolvable(route.nexthops[k])

\* A route whose VRF reference cannot be resolved through the global VRF tables.
VrfUnresolvable(route) ==
    /\ route.vrf_context_id # NONE
    /\ \/ route.vrf_context_id \notin DOMAIN global_id_vfr
       \/ global_id_vfr[route.vrf_context_id] \notin DOMAIN global_name_vfr

\* Identifiers of the destination device's interface table.
DstInterfaceIds ==
    {element_interfaces_by_name[dst_eid][n] : n \in DOMAIN element_interfaces_by_name[dst_eid]}

\* ------------------------------------------------------------------------
\* Claims
\* ------------------------------------------------------------------------
\* C1 (whole-record skip for nexthops): every source static route the loop
\* has gone through that has at least one unresolvable nexthop_interface_id
\* got zero create/update calls and exactly one skip report, even when its
\* other nexthops resolve.
C1_WholeRecordSkipNexthops ==
    \A i \in ProcessedRoutes :
        HasUnresolvableNexthop(source_static_routes_list[i])
            => /\ CallsFor("route", i) = {}
               /\ Cardinality(SkipReportsFor("route", i)) = 1

\* C2 (no identifier leakage): in every create or update call issued for a
\* static route, every nexthop_interface_id of the payload is an identifier
\* of the destination device's interface table, and the payload's
\* vrf_context_id, when present, is an identifier of the global VRF table.
C2_NoIdentifierLeakage ==
    \A k \in 1..Len(calls) :
        (calls[k].run = run /\ calls[k].pass = "route")
            => /\ \A n \in 1..Len(calls[k].data.nexthops) :
                    calls[k].data.nexthops[n].nexthop_interface_id # NONE
                        => calls[k].data.nexthops[n].nexthop_interface_id \in DstInterfaceIds
               /\ calls[k].data.vrf_context_id # NONE
                    => calls[k].data.vrf_context_id \in DOMAIN global_id_vfr

\* A destination VLAN/subinterface or route of the listing that an update call
\* is addressed to and takes its id and (when it has one) its ETag from.
UpdateCarries(call, listing, d) ==
    /\ call.op = "update"
    /\ call.target = listing[d].id
    /\ call.data.id = listing[d].id
    /\ listing[d]._etag # NONE => call.data._etag = listing[d]._etag

RouteMatches(i) ==
    {d \in 1..Len(destination_static_routes_list) :
        destination_static_routes_list[d].destination_prefix
            = source_static_routes_list[i].destination_prefix}

VlanTypes == {"vlan", "subinterface"}

IntfMatches(i) ==
    {d \in 1..Len(destination_interface_list) :
        /\ destination_interface_list[d].name = interface_list[i].name
        /\ destination_interface_list[d].type \in VlanTypes}

\* C3 (natural-key matching, update path): for every non-skipped source route
\* whose destination_prefix is that of a route of the destination listing,
\* and every source VLAN/subinterface whose name is that of a destination
\* VLAN/subinterface, exactly one call is issued and it is an update (no
\* create), addressed to a destination record with that key, whose payload
\* carries that record's id as id and that record's ETag as _etag.
C3_NaturalKeyUpdate ==
    /\ \A i \in ProcessedRoutes :
          (~VrfUnresolvable(source_static_routes_list[i]) /\ RouteMatches(i) # {})
             => /\ Cardinality(CallsFor("route", i)) = 1
                /\ \A k \in CallsFor("route", i) :
                      \E d \in RouteMatches(i) :
                          UpdateCarries(calls[k], destination_static_routes_list, d)
    /\ \A i \in ProcessedIntfs :
          (interface_list[i].type \in VlanTypes /\ IntfMatches(i) # {})
             => /\ Cardinality(CallsFor("intf", i)) = 1
                /\ \A k \in CallsFor("intf", i) :
                      \E d \in IntfMatches(i) :
                          UpdateCarries(calls[k], destination_interface_list, d)

\* Witness of C3: a run has updated a route and an interface, each with the
\* id and ETag of the destination record and not those of the source record.
C3_Witness ==
    /\ \E k \in 1..Len(calls) :
          /\ calls[k].run = run /\ calls[k].pass = "route" /\ calls[k].op = "update"
          /\ calls[k].data.id = "rd1" /\ calls[k].data._etag = "erd"
          /\ source_static_routes_list[calls[k].idx].id = "rs"
    /\ \E k \in 1..Len(calls) :
          /\ calls[k].run = run /\ calls[k].pass = "intf" /\ calls[k].op = "update"
          /\ calls[k].data.id = "i2" /\ calls[k].data._etag = "ed2"
          /\ interface_list[calls[k].idx].id = "i1"

\* C4 (create path): a source route or VLAN/subinterface with no destination
\* record of the same natural key gets a create call and never an update, and
\* the payload has neither id nor _etag, whatever the source record carried
\* (a route skipped for its VRF reference gets no call at all).
C4_CreatePath ==
    /\ \A i \in ProcessedRoutes :
          RouteMatches(i) = {}
             => /\ \A k \in CallsFor("route", i) :
                      /\ calls[k].op = "create"
                      /\ calls[k].data.id = NONE
                      /\ calls[k].data._etag = NONE
                /\ ~VrfUnresolvable(source_static_routes_list[i])
                      => Cardinality(CallsFor("route", i)) = 1
    /\ \A i \in ProcessedIntfs :
          (/\ interface_list[i].type \in VlanTypes
           /\ \A d \in 1..Len(destination_interface_list) :
                 destination_interface_list[d].name # interface_list[i].name)
             => /\ Cardinality(CallsFor("intf", i)) = 1
                /\ \A k \in CallsFor("intf", i) :
                      /\ calls[k].op = "create"
                      /\ calls[k].data.id = NONE
                      /\ calls[k].data._etag = NONE

\* Witness of C4: a run has created a route and an interface from source
\* records that carried an id and an ETag.
C4_Witness ==
    /\ \E k \in 1..Len(calls) :
          /\ calls[k].run = run /\ calls[k].pass = "route" /\ calls[k].op = "create"
          /\ source_static_routes_list[calls[k].idx].id # NONE
          /\ source_static_routes_list[calls[k].idx]._etag # NONE
    /\ \E k \in 1..Len(calls) :
          /\ calls[k].run = run /\ calls[k].pass = "intf" /\ calls[k].op = "create"
          /\ interface_list[calls[k].idx].id # NONE
          /\ interface_list[calls[k].idx]._etag # NONE

\* The destination listing of a pass.
DestinationListing(pass) ==
    IF pass = "route" THEN destination_static_routes_list ELSE destination_interface_list

\* C5 (missing destination concurrency token): every _etag sent in an update
\* equals the _etag of the destination record the update is addressed to; when
\* that record has no ETag the payload carries none (never the source's).
C5_UpdateEtagIsDestinationEtag ==
    \A k \in 1..Len(calls) :
        (calls[k].run = run /\ calls[k].op = "update")
            => \A d \in 1..Len(DestinationListing(calls[k].pass)) :
                  DestinationListing(calls[k].pass)[d].id = calls[k].target
                     => calls[k].data._etag = DestinationListing(calls[k].pass)[d]._etag

\* C6 (type filtering): no create or update call is issued for a source
\* interface whose type is other than "vlan" or "subinterface".
C6_TypeFiltering ==
    \A k \in 1..Len(calls) :
        (calls[k].run = run /\ calls[k].pass = "intf")
            => interface_list[calls[k].idx].type \in VlanTypes

\* Witness of C6: the loop has gone past a physical source interface whose
\* name is also the name of an interface of the destination.
C6_Witness ==
    \E i \in ProcessedIntfs :
        /\ interface_list[i].type = "physical"
        /\ \E d \in 1..Len(destination_interface_list) :
              destination_interface_list[d].name = interface_list[i].name
        /\ pc = "done"

VrfSkipKinds == {"skip_vrf_id_unknown", "skip_vrf_name_unknown"}

\* C7 (VRF skip): a source route whose vrf_context_id cannot be resolved
\* through the global VRF tables gets zero create/update calls and one skip
\* report, and the step that skips it goes on with the next source route.
C7_VrfSkipInv ==
    \A i \in ProcessedRoutes :
        VrfUnresolvable(source_static_routes_list[i])
            => /\ CallsFor("route", i) = {}
               /\ Cardinality({k \in SkipReportsFor("route", i) :
                                  reports[k].kind \in VrfSkipKinds}) = 1

C7_VrfSkipStep ==
    (InRouteLoop /\ VrfUnresolvable(source_static_routes_list[ridx]))
        => /\ pc' = "route_loop"
           /\ ridx' = ridx + 1
           /\ calls' = calls
           /\ source_static_routes_list' = source_static_routes_list

C7_VrfSkip == []C7_VrfSkipInv /\ [][C7_VrfSkipStep]_vars

\* Witness of C7: a route was skipped for its VRF reference and the route
\* listed after it was written.
C7_Witness ==
    \E i \in ProcessedRoutes :
        /\ VrfUnresolvable(source_static_routes_list[i])
        /\ CallsFor("route", i + 1) # {}

\* The scenario: the controller lists both VRFs named CORP (v1 and v9, in
\* either order), i1 is vlan10 on device A and vlan10 is i2 on device B.
ScenarioTables ==
    /\ Range(ctl.vrfs) = VrfUniverse
    /\ DOMAIN global_id_vfr = {"v1", "v9"}
    /\ src_eid = "eA" /\ dst_eid = "eB"
    /\ Get(element_interfaces_by_id["eA"], "i1") = "vlan10"
    /\ Get(element_interfaces_by_name["eB"], "vlan10") = "i2"

\* C8 (scenario rewrite): in the scenario, the payload sent to device B for
\* the source route {192.168.1.0/24, vrf v1, nexthops [i1]} has vrf_context_id
\* v9 and nexthop_interface_id i2, in whichever order the VRFs are listed.
C8_ScenarioRewrite ==
    \A k \in 1..Len(calls) :
        (/\ calls[k].run = run /\ calls[k].pass = "route"
         /\ ScenarioTables
         /\ source_static_routes_list[calls[k].idx] = ScenarioRoute)
            => /\ calls[k].data.vrf_context_id = "v9"
               /\ calls[k].data.nexthops = <<Nexthop("i2", NONE)>>

\* C9 (idempotence): a second run, after a first run in which every write
\* was accepted, issues no create call, for routes and for interfaces.
C9_SecondRunCreatesNothing ==
    \A k \in 1..Len(calls) : calls[k].run = 2 => calls[k].op = "update"

\* Witness of C9: the first run created a route and an interface, and the
\* second run has updated both.
C9_Witness ==
    \A pass \in {"route", "intf"} :
        \E k1, k2 \in 1..Len(calls) :
            /\ calls[k1].run = 1 /\ calls[k1].op = "create" /\ calls[k1].pass = pass
            /\ calls[k2].run = 2 /\ calls[k2].op = "update" /\ calls[k2].pass = pass
            /\ calls[k2].idx = calls[k1].idx

\* Terminal states of a source record of the current run.
Skipped(pass, i) == SkipReportsFor(pass, i) # {} /\ CallsFor(pass, i) = {}

Succeeded(pass, i) == \E k \in CallsFor(pass, i) : calls[k].ok

Failed(pass, i) == \E k \in CallsFor(pass, i) : ~calls[k].ok

ExactlyOneTerminal(pass, i) ==
    Cardinality({t \in {"Skipped", "Succeeded", "Failed"} :
                    \/ t = "Skipped" /\ Skipped(pass, i)
                    \/ t = "Succeeded" /\ Succeeded(pass, i)
                    \/ t = "Failed" /\ Failed(pass, i)}) = 1

\* C10 (per-record isolation): when the process has ended after entering the
\* static route loop, every source route has reached exactly one terminal
\* state, whatever calls the controller rejected; likewise every source
\* VLAN/subinterface when the interface loop has ended.
C10_PerRecordIsolation ==
    /\ pc \in {"done", "crashed"}
          => \A i \in 1..Len(source_static_routes_list) : ExactlyOneTerminal("route", i)
    /\ pc = "done"
          => \A i \in 1..Len(interface_list) :
                interface_list[i].type \in VlanTypes => ExactlyOneTerminal("intf", i)

\* ---------------------------------------------------------------------------
\* Listings and the writes that depend on them
\* ---------------------------------------------------------------------------

\* The controller's identifier and site of the element with a given name.
ControllerElementId(name) ==
    IF \E i \in 1..Len(ElementItems) : ElementItems[i].name = name
    THEN (CHOOSE it \in Range(ElementItems) : it.name = name).id
    ELSE NONE

ControllerSiteId(name) ==
    IF \E i \in 1..Len(ElementItems) : ElementItems[i].name = name
    THEN (CHOOSE it \in Range(ElementItems) : it.name = name).site_id
    ELSE NONE

\* Write calls of the running process.
CurrentCalls == {c \in 1..Len(calls) : calls[c].run = run}

\* The listing phase that feeds a reconciliation pass, and the record kind it lists.
PassPhase(pass) == IF pass = "route" THEN "routes" ELSE "interfaces"

PassKind(pass) == IF pass = "route" THEN "staticroutes" ELSE "interfaces"

\* Listing calls of the running process that feed a pass, for one device.
PassListings(pass, element_id) ==
    {k \in 1..Len(gets) : /\ gets[k].phase = PassPhase(pass)
                          /\ gets[k].kind = PassKind(pass)
                          /\ gets[k].element_id = element_id}

\* C11: a failed source or destination listing of a record type ends the run
\* with exit status 1 and the run issues no create or update of that type; a
\* write of a type is issued only after both the source and the destination
\* listing of that type succeeded in the same run.
C11_FatalRecordListing ==
    /\ \A k \in 1..Len(gets) :
          (gets[k].phase \in {"routes", "interfaces"} /\ ~gets[k].ok) =>
             /\ k = Len(gets)
             /\ pc = "exit1"
             /\ \A c \in CurrentCalls : PassPhase(calls[c].pass) # gets[k].phase
    /\ \A c \in CurrentCalls :
          \A name \in {args.src_element, args.dst_element} :
             \E k \in PassListings(calls[c].pass, ControllerElementId(name)) :
                gets[k].ok /\ gets[k].at < c

\* The destination interface listing failed after route writes were issued:
\* the run ended with the source interfaces listed and none of them written.
C11_Witness ==
    /\ pc = "exit1"
    /\ gets # <<>>
    /\ ~gets[Len(gets)].ok
    /\ gets[Len(gets)].phase = "interfaces"
    /\ gets[Len(gets)].element_id = ControllerElementId(args.dst_element)
    /\ Len(interface_list) > 0
    /\ \E c \in CurrentCalls : calls[c].pass = "route"

\* The table a listing's items give for a key and a value attribute: each key
\* of the items, with the value of the last item carrying it.
LastWith(items, key, k) ==
    items[CHOOSE i \in 1..Len(items) :
            /\ items[i][key] = k
            /\ \A j \in (i + 1)..Len(items) : items[j][key] # k]

TableOf(items, key, val) ==
    [k \in {items[i][key] : i \in 1..Len(items)} |-> LastWith(items, key, k)[val]]

\* Listing calls of the running process made while building the translation tables.
DictListings(kinds) ==
    {k \in 1..Len(gets) : gets[k].phase = "dicts" /\ gets[k].kind \in kinds}

C12_TableInv ==
    /\ \A k \in DictListings({"elements", "vrfcontexts"}) :
          ~gets[k].ok =>
             /\ k = Len(gets)
             /\ pc = "exit1"
             /\ CurrentCalls = {}
    /\ \A k \in DictListings({"interfaces"}) :
          LET e == gets[k].element_id
          IN  IF gets[k].ok
              THEN /\ element_interfaces_by_id[e] = TableOf(gets[k].items, "id", "name")
                   /\ element_interfaces_by_name[e] = TableOf(gets[k].items, "name", "id")
              ELSE /\ element_interfaces_by_id[e] = EmptyDict
                   /\ element_interfaces_by_name[e] = EmptyDict

\* A step that receives a failed interface listing for one element goes on
\* with the next element and leaves the other elements' tables as they were.
C12_TableStep ==
    (/\ Len(gets') = Len(gets) + 1
     /\ gets'[Len(gets')].phase = "dicts"
     /\ gets'[Len(gets')].kind = "interfaces"
     /\ ~gets'[Len(gets')].ok) =>
       /\ pc' = pc
       /\ pc' # "exit1"
       /\ eidx' = eidx + 1
       /\ element_interfaces_by_id' = element_interfaces_by_id
       /\ element_interfaces_by_name' = element_interfaces_by_name

\* C12: a failed device listing or VRF listing ends the run before any further
\* controller call; a failed interface listing for one device does not end the
\* run, leaves that device's two interface tables empty and leaves every other
\* device's tables exactly as that device's own listing populates them.
C12_TableBuilderFailures == []C12_TableInv /\ [][C12_TableStep]_vars

\* The run went on to write to the destination after one element's interface
\* listing failed and the other's, with items, succeeded.
C12_Witness ==
    /\ pc = "done"
    /\ CurrentCalls # {}
    /\ \E k, l \in DictListings({"interfaces"}) :
          /\ ~gets[k].ok
          /\ gets[l].ok
          /\ gets[l].items # <<>>
          /\ gets[l].element_id # gets[k].element_id

\* C13: no exception escapes the reconciliation loop: for every source route
\* made of the data model's fields (identifier, destination prefix, optional
\* VRF id, nexthops) and every destination record, with or without a
\* concurrency token, the process never ends on an uncaught error.
C13_NoExceptionEscapes == pc # "crashed"

\* ---------------------------------------------------------------------------
\* Order and number of the write calls
\* ---------------------------------------------------------------------------

\* The natural key of a pass: destination prefix of routes, name of interfaces.
KeyAttr(pass) == IF pass = "route" THEN "destination_prefix" ELSE "name"

\* The items the running process got from the successful listing of a pass
\* for one device (none before that listing).
ListedItems(pass, element_id) ==
    LET ks == {k \in PassListings(pass, element_id) : gets[k].ok}
    IN  IF ks = {} THEN <<>> ELSE gets[CHOOSE k \in ks : TRUE].items

SourceItems(pass) == ListedItems(pass, ControllerElementId(args.src_element))

\* C14: within each pass the writes are issued in the order of the source
\* listing, each call has completed (the controller has applied it or rejected
\* it) before the next is issued, and every static-route write precedes the
\* interface listings and every interface write of the run.
C14_Ordering ==
    /\ LET routes == SourceItems("route")
           intfs == SourceItems("intf")
       IN  \A c \in CurrentCalls :
              LET items == IF calls[c].pass = "route" THEN routes ELSE intfs
              IN  /\ calls[c].idx \in 1..Len(items)
                  /\ calls[c].data[KeyAttr(calls[c].pass)] =
                        items[calls[c].idx][KeyAttr(calls[c].pass)]
    /\ \A c, d \in CurrentCalls :
          (c < d /\ calls[c].pass = calls[d].pass) => calls[c].idx <= calls[d].idx
    /\ ctl.seq = Cardinality({c \in 1..Len(calls) : calls[c].ok})
    /\ \A c \in CurrentCalls :
          calls[c].pass = "route" =>
             /\ \A k \in 1..Len(gets) : gets[k].phase = "interfaces" => c <= gets[k].at
             /\ \A d \in CurrentCalls : calls[d].pass = "intf" => c < d

\* A finished run that wrote two routes of different prefixes and then an
\* interface.
C14_Witness ==
    /\ pc = "done"
    /\ \E c, d \in CurrentCalls :
          /\ c < d
          /\ calls[c].pass = "route" /\ calls[d].pass = "route"
          /\ calls[c].data.destination_prefix # calls[d].data.destination_prefix
    /\ \E d \in CurrentCalls : calls[d].pass = "intf"

\* C15: no retries: in each run every source record gets at most one write
\* call, never both a create and an update, and a rejected call is never
\* issued again.
C15_NoRetries ==
    /\ \A c \in CurrentCalls :
          Cardinality(CallsFor(calls[c].pass, calls[c].idx)) = 1
    /\ \A c, d \in CurrentCalls :
          (c < d /\ ~calls[c].ok) =>
             ~(calls[d].pass = calls[c].pass /\ calls[d].idx = calls[c].idx)

\* A rejected call for the first record of a pass, the run having gone on to
\* the next record and finished.
C15_Witness ==
    /\ pc = "done"
    /\ \E c, d \in CurrentCalls :
          /\ calls[c].pass = calls[d].pass
          /\ ~calls[c].ok
          /\ calls[c].idx = 1 /\ calls[d].idx = 2

\* ---------------------------------------------------------------------------
\* Frame of the payload
\* ---------------------------------------------------------------------------

\* Attributes that sanitize, rewrite and the create/update preparation may change.
RewrittenAttrs == {"readonly", "id", "_etag", "vrf_context_id", "nexthops"}

\* The payload of a write call against the source record it was made from.
FrameOfCall(source, data, pass) ==
    /\ DOMAIN data = DOMAIN source
    /\ \A f \in DOMAIN source \ RewrittenAttrs : data[f] = source[f]
    /\ data.readonly = source.readonly \ BASE_DELETE_ATTRS
    /\ pass = "route" =>
          /\ Len(data.nexthops) = Len(source.nexthops)
          /\ \A k \in 1..Len(source.nexthops) :
                /\ DOMAIN data.nexthops[k] = DOMAIN source.nexthops[k]
                /\ \A f \in DOMAIN source.nexthops[k] \ {"nexthop_interface_id"} :
                      data.nexthops[k][f] = source.nexthops[k][f]
                /\ source.nexthops[k].nexthop_interface_id = NONE =>
                      data.nexthops[k] = source.nexthops[k]

\* The lists the loops walk, against what the source listings of the run returned.
SourceListingsKept ==
    /\ \A k \in PassListings("route", ControllerElementId(args.src_element)) :
          gets[k].ok => source_static_routes_list = gets[k].items
    /\ \A k \in PassListings("intf", ControllerElementId(args.src_element)) :
          gets[k].ok => interface_list = gets[k].items

\* C16: the payload of every write call equals the source record except for
\* the removed server-managed attributes, id and _etag, vrf_context_id and the
\* nexthop_interface_id of nexthops that carry one; an IP-only nexthop is sent
\* unchanged, number and order of nexthops are preserved, and the record held
\* in the source listing is not modified.
C16_Frame ==
    /\ LET routes == SourceItems("route")
           intfs == SourceItems("intf")
       IN  \A c \in CurrentCalls :
              LET items == IF calls[c].pass = "route" THEN routes ELSE intfs
              IN  /\ calls[c].idx \in 1..Len(items)
                  /\ FrameOfCall(items[calls[c].idx], calls[c].data, calls[c].pass)
    /\ SourceListingsKept

\* A write whose source route has two nexthops, one of them IP-only and the
\* other with its interface id rewritten, after which the loop has moved on.
C16_Witness ==
    \E c \in CurrentCalls :
       /\ calls[c].pass = "route"
       /\ ridx > calls[c].idx
       /\ LET source == source_static_routes_list[calls[c].idx]
          IN  /\ Len(source.nexthops) = 2
              /\ \E k, l \in 1..2 :
                    /\ source.nexthops[k].nexthop_interface_id = NONE
                    /\ source.nexthops[l].nexthop_interface_id # NONE
                    /\ calls[c].data.nexthops[l].nexthop_interface_id
                          # source.nexthops[l].nexthop_interface_id

\* C17: no duplicate creation: within one run at most one create call is
\* issued for any natural key (destination_prefix of routes, name of
\* VLAN/subinterfaces), also when the source listing holds two records of the
\* same key and the destination listing none.
C17_NoDuplicateCreation ==
    \A c, d \in CurrentCalls :
       (/\ calls[c].pass = calls[d].pass
        /\ calls[c].op = "create" /\ calls[d].op = "create"
        /\ calls[c].data[KeyAttr(calls[c].pass)] = calls[d].data[KeyAttr(calls[d].pass)])
       => c = d

\* ---------------------------------------------------------------------------
\* Targets of interface updates
\* ---------------------------------------------------------------------------

DestinationItems(pass) == ListedItems(pass, ControllerElementId(args.dst_element))

\* Source interfaces processed in this run that are VLAN/subinterfaces and
\* share their name only with destination interfaces of other types.
NameTakenByOtherType ==
    {i \in ProcessedIntfs :
        /\ interface_list[i].type \in VlanTypes
        /\ IntfMatches(i) = {}
        /\ \E d \in 1..Len(destination_interface_list) :
              destination_interface_list[d].name = interface_list[i].name}

\* C18: every interface update is addressed to a destination interface of
\* type vlan or subinterface; a source VLAN/subinterface whose name is that
\* of a destination interface of another type gets a create call, never an
\* update of that destination interface.
C18_UpdateTargets ==
    /\ LET listed == DestinationItems("intf")
       IN  \A c \in CurrentCalls :
              (calls[c].pass = "intf" /\ calls[c].op = "update") =>
                 /\ \E d \in 1..Len(listed) :
                       listed[d].id = calls[c].target /\ listed[d].type \in VlanTypes
                 /\ \A d \in 1..Len(listed) :
                       listed[d].type \notin VlanTypes =>
                          /\ calls[c].target # listed[d].id
                          /\ calls[c].data.id # listed[d].id
    /\ \A i \in NameTakenByOtherType :
          /\ Cardinality(CallsFor("intf", i)) = 1
          /\ \A c \in CallsFor("intf", i) :
                calls[c].op = "create" /\ calls[c].target = NONE

\* A finished run that processed a source subinterface named like a physical
\* interface of the destination and also updated a destination interface.
C18_Witness ==
    /\ pc = "done"
    /\ NameTakenByOtherType # {}
    /\ \E c \in CurrentCalls : calls[c].pass = "intf" /\ calls[c].op = "update"

\* ---------------------------------------------------------------------------
\* Scope of the write calls
\* ---------------------------------------------------------------------------

\* A command line that names no destination distinct from the source, or a
\* destination the controller does not know.
NoUsableDestination ==
    \/ args.dst_element = args.src_element
    \/ args.dst_element = NONE
    \/ ControllerElementId(args.dst_element) = NONE

\* The source device's records on the controller are what every successful
\* listing of them returned.
SourceRecordsUntouched ==
    \A k \in 1..Len(gets) :
       (/\ gets[k].ok
        /\ gets[k].phase \in {"routes", "interfaces"}
        /\ gets[k].element_id = ControllerElementId(args.src_element)) =>
          gets[k].items = IF gets[k].kind = "staticroutes"
                          THEN ctl.routes[gets[k].element_id]
                          ELSE ctl.intfs[gets[k].element_id]

\* C19: the source is never mutated: every create and update call is scoped
\* to the destination device's identifier and site identifier, none is issued
\* with the source device's identifier, and a run whose source and destination
\* names are equal or whose destination name is absent or unknown issues no
\* write call at all.
C19_SourceNeverMutated ==
    /\ LET dst == ControllerElementId(args.dst_element)
           site == ControllerSiteId(args.dst_element)
           src == ControllerElementId(args.src_element)
       IN  \A c \in 1..Len(calls) :
              /\ calls[c].element_id # NONE
              /\ calls[c].element_id = dst
              /\ calls[c].site_id = site
              /\ calls[c].element_id # src
    /\ NoUsableDestination => calls = <<>>
    /\ SourceRecordsUntouched

\* A finished run whose route write and interface write were both accepted
\* by the controller.
C19_Witness ==
    /\ pc = "done"
    /\ \E c, d \in CurrentCalls :
          /\ calls[c].pass = "route" /\ calls[c].ok
          /\ calls[d].pass = "intf" /\ calls[d].ok

====
